---- MODULE Spec2Model ----
(***************************************************************************)
(* Model of src/modules/isochrones_module.py (the graph cache _GRAPH_CACHE,*)
(* _load_graph and build_isochrone) and of its callers.                    *)
(*                                                                         *)
(* Units.  Times are exact rationals in the source (floats); here a time   *)
(* is an integer number of ticks, TicksPerSecond ticks to the second, so   *)
(* that both limit/1.3*1.2 (a multiple of 1/13 s) and a value rounded to   *)
(* two decimals (a multiple of 1/100 s) are integers.  Positions are       *)
(* integers on a line.                                                     *)
(***************************************************************************)
EXTENDS Integers, Sequences, FiniteSets, TLC

VARIABLES
    disk,          \* the data files: for each mode, what reading them gives
    GRAPH_CACHE,   \* _GRAPH_CACHE: a dict from mode to handle
    reads,         \* per mode: how often the graph file and the edge file were read
    last,          \* the most recent build_isochrone call: arguments, locals, outcome
    prev,          \* the call before it (specification PairSpec only)
    th,            \* the threads inside _load_graph (specification ConcSpec only)
    SOCIAL_GDF,      \* accessibility_module.SOCIAL_GDF: the facility points
    RESIDENTIAL_GDF, \* placement_module.RESIDENTIAL_GDF: the residential points, in file order
    LOW_DENSITY_GDF, \* placement_module.LOW_DENSITY_GDF: the low-density zones, in file order
    acc,           \* the dict analyze_accessibility returned, as its caller holds it
    final,         \* the dict generate_placement_suggestions returned
    sugg,          \* what the most recent placement_suggestions call returned
    clu,           \* a call of find_residential_clusters (specification ClusterSpec only)
    pcall,         \* the arguments of the most recent placement_suggestions call
    run            \* a run of a driver (specification RunSpec only)

refdata == <<SOCIAL_GDF, RESIDENTIAL_GDF, LOW_DENSITY_GDF>>
flow == <<acc, final, sugg, clu, pcall, run>>
vars == <<disk, GRAPH_CACHE, reads, last, prev, th, refdata, flow>>

-----------------------------------------------------------------------------
(* Bounds of the model *)

NumNodes == 3          \* nodes of a routing graph are 1..NumNodes
MaxReads == 2          \* cap on the number of reads of one mode's graph file
NumThreads == 2        \* threads of the concurrent specification
MaxPoints == 3         \* points of a frame handed to find_residential_clusters

Nodes == 1..NumNodes
Threads == 1..NumThreads

(* Program constants *)

WalkSpeedDmps == 13        \* speed_mps = 1.3, in decimetres per second
TicksPerSecond == WalkSpeedDmps * 100
WalkBuffer == 50           \* buffer_size of walk
DriveBuffer == 70          \* buffer_size of drive
MarginTenths == 12         \* the factor 1.2, in tenths
SecondsPerMinute == 60
MinuteFactor == 2

Modes == {"walk", "drive"}
ModeArgs == Modes \cup {"bike"}                     \* arguments a caller may pass
LimitTypeArgs == {"meters", "minutes", "hours"}
Limits == {-1, 0, 15, 500}                           \* the limit argument
Coords == {15, 30}                                   \* the coord argument (a position)

NodeX(n) == 10 * n        \* position of node n in the graph file

-----------------------------------------------------------------------------
(* The data files.  A network is a set of directed weighted edges         *)
(* <<u, v, seconds>>; the edge file lists the same edges as rows <<u, v>>. *)

WalkCandidates == {<<1, 2, 300>>, <<2, 3, 1500>>, <<1, 3, 2000>>}
DriveNet == {<<1, 2, 60>>, <<2, 2, 5>>}

\* what the files of a mode may hold: a network, or a graph file that cannot
\* be read ("nograph"), or an edge file that cannot ("badedges")
DiskContents(mode) ==
    {[status |-> "ok", net |-> n] :
        n \in IF mode = "walk" THEN SUBSET WalkCandidates ELSE {DriveNet}}
    \cup {[status |-> s, net |-> {}] : s \in {"nograph", "badedges"}}

-----------------------------------------------------------------------------
(* _load_graph *)

\* lines 20-31: the per-mode settings; ok = FALSE is the ValueError of line 31
ModeConfig(mode) ==
    IF mode = "walk"
    THEN [ok |-> TRUE, speed_mps |-> WalkSpeedDmps, buffer_size |-> WalkBuffer]
    ELSE IF mode = "drive"
    THEN [ok |-> TRUE, speed_mps |-> 0, buffer_size |-> DriveBuffer]
    ELSE [ok |-> FALSE, speed_mps |-> 0, buffer_size |-> 0]

\* lines 33-36: the graph as read, weights converted to float (here: to ticks)
ReadGraph(d) == {<<e[1], e[2], e[3] * TicksPerSecond>> : e \in d.net}

\* lines 38-41: the rows of the edge file, u and v as strings
ReadEdges(d) == {<<e[1], e[2]>> : e \in d.net}

\* lines 58-67: the handle built from what was read; id tells one handle object
\* from another
MakeHandle(mode, d, id) ==
    [id |-> id,
     graph |-> ReadGraph(d),
     edges |-> ReadEdges(d),
     node_ids |-> Nodes,
     speed_mps |-> ModeConfig(mode).speed_mps,
     buffer_size |-> ModeConfig(mode).buffer_size]

NoHandle ==
    [id |-> 0, graph |-> {}, edges |-> {}, node_ids |-> {},
     speed_mps |-> 0, buffer_size |-> 0]

\* a store that rebinds the cache to a dict holding the new entry alone
CacheStoreEvicting(cache, mode, h) ==
    [m \in {mode} |-> h]

\* line 58: _GRAPH_CACHE[mode] = {...}
CacheStore(cache, mode, h) ==
    [m \in DOMAIN cache \cup {mode} |-> IF m = mode THEN h ELSE cache[m]]

\* one more read of the graph file, and of the edge file if the graph was read
CountReads(rd, mode, d) ==
    [rd EXCEPT ![mode] =
        [graph |-> @.graph + 1,
         edges |-> IF d.status = "nograph" THEN @.edges ELSE @.edges + 1]]

\* _load_graph without the lookup of line 17: every call reads the files
LoadGraphNoLookup(cache, rd, dk, mode) ==
    IF ~ModeConfig(mode).ok
    THEN [err |-> "ValueError: mode", hit |-> FALSE, handle |-> NoHandle,
          cache |-> cache, reads |-> rd]
    ELSE IF dk[mode].status # "ok"
    THEN [err |-> "DataLoadError", hit |-> FALSE, handle |-> NoHandle,
          cache |-> cache, reads |-> CountReads(rd, mode, dk[mode])]
    ELSE LET h == MakeHandle(mode, dk[mode], rd[mode].graph + 1)
             c == CacheStore(cache, mode, h)
         IN  [err |-> "", hit |-> FALSE, handle |-> c[mode], cache |-> c,
              reads |-> CountReads(rd, mode, dk[mode])]

\* _load_graph storing the entry as soon as the graph is read, before the
\* edge file is
LoadGraphStoreEarly(cache, rd, dk, mode) ==
    IF mode \in DOMAIN cache
    THEN [err |-> "", hit |-> TRUE, handle |-> cache[mode], cache |-> cache, reads |-> rd]
    ELSE IF ~ModeConfig(mode).ok
    THEN [err |-> "ValueError: mode", hit |-> FALSE, handle |-> NoHandle,
          cache |-> cache, reads |-> rd]
    ELSE IF dk[mode].status = "nograph"
    THEN [err |-> "DataLoadError", hit |-> FALSE, handle |-> NoHandle,
          cache |-> cache, reads |-> CountReads(rd, mode, dk[mode])]
    ELSE LET h == MakeHandle(mode, dk[mode], rd[mode].graph + 1)
             c == CacheStore(cache, mode, h)
         IN  [err |-> IF dk[mode].status = "ok" THEN "" ELSE "DataLoadError",
              hit |-> FALSE, handle |-> c[mode], cache |-> c,
              reads |-> CountReads(rd, mode, dk[mode])]

\* _load_graph(mode) run to its end from cache `cache`, the files being dk:
\* the error raised ("" when none), whether line 17 found the mode cached, the
\* handle returned, the cache and the read counts afterwards
LoadGraph(cache, rd, dk, mode) ==
    IF mode \in DOMAIN cache
    THEN [err |-> "", hit |-> TRUE, handle |-> cache[mode], cache |-> cache, reads |-> rd]
    ELSE IF ~ModeConfig(mode).ok
    THEN [err |-> "ValueError: mode", hit |-> FALSE, handle |-> NoHandle,
          cache |-> cache, reads |-> rd]
    ELSE IF dk[mode].status # "ok"
    THEN [err |-> "DataLoadError", hit |-> FALSE, handle |-> NoHandle,
          cache |-> cache, reads |-> CountReads(rd, mode, dk[mode])]
    ELSE LET h == MakeHandle(mode, dk[mode], rd[mode].graph + 1)
             c == CacheStore(cache, mode, h)
         IN  [err |-> "", hit |-> FALSE, handle |-> c[mode], cache |-> c,
              reads |-> CountReads(rd, mode, dk[mode])]

-----------------------------------------------------------------------------
(* build_isochrone *)

\* the validation without its last branch: an unknown limit_type passes
ValidateNoElse(mode, limit_type) ==
    IF limit_type = "meters" /\ mode = "drive" THEN "ValueError: drive meters" ELSE ""

\* lines 95-102: "" when the arguments pass, else the ValueError raised
Validate(mode, limit_type) ==
    IF limit_type = "meters"
    THEN IF mode = "drive" THEN "ValueError: drive meters" ELSE ""
    ELSE IF limit_type = "minutes" THEN ""
    ELSE "ValueError: limit_type"

\* time_limit without the margin of 20% on a distance
TimeLimitNoMargin(limit, limit_type, speed_mps) ==
    IF limit_type = "meters"
    THEN (limit * 10 * TicksPerSecond) \div speed_mps
    ELSE limit * SecondsPerMinute * MinuteFactor * TicksPerSecond

\* lines 98 and 100: time_limit, in ticks
TimeLimit(limit, limit_type, speed_mps) ==
    IF limit_type = "meters"
    THEN (limit * MarginTenths * TicksPerSecond) \div speed_mps
    ELSE limit * SecondsPerMinute * MinuteFactor * TicksPerSecond

\* line 146: round(time_limit, 2), in hundredths of a second.  A tick count
\* is never half-way between two hundredths (13 ticks to the hundredth).
Round2(ticks) ==
    LET per == TicksPerSecond \div 100
    IN  (2 * ticks + per) \div (2 * per)

Abs(x) == IF x < 0 THEN -x ELSE x

\* line 104: the nodes kdtree.query(coord) may return: the nearest ones
KdQuery(node_ids, coord) ==
    {n \in node_ids :
        \A m \in node_ids : Abs(NodeX(n) - coord) <= Abs(NodeX(m) - coord)}

\* the weight function of the search: the least weight among parallel edges
EdgeCost(G, v, u) ==
    LET ws == {e[3] : e \in {f \in G : f[1] = v /\ f[2] = u}}
    IN  CHOOSE w \in ws : \A x \in ws : w <= x

Successors(G, v) == {e[2] : e \in {f \in G : f[1] = v}}

\* the loop with the cutoff test made strict: a node whose distance equals
\* the cutoff is dropped
RECURSIVE DijkstraLoopStrict(_, _, _, _)
DijkstraLoopStrict(G, cutoff, dist, seen) ==
    LET fringe == DOMAIN seen \ DOMAIN dist
    IN  IF fringe = {}
        THEN dist
        ELSE LET v == CHOOSE n \in fringe : \A m \in fringe : seen[n] <= seen[m]
                 d == seen[v]
                 dist2 == [n \in DOMAIN dist \cup {v} |-> IF n = v THEN d ELSE dist[n]]
                 upd == {u \in Successors(G, v) :
                            /\ ~(d + EdgeCost(G, v, u) >= cutoff)
                            /\ u \notin DOMAIN dist2
                            /\ (u \notin DOMAIN seen \/ d + EdgeCost(G, v, u) < seen[u])}
                 seen2 == [n \in DOMAIN seen \cup upd |->
                              IF n \in upd THEN d + EdgeCost(G, v, n) ELSE seen[n]]
             IN  DijkstraLoopStrict(G, cutoff, dist2, seen2)

\* the loop with the cutoff test turned round: a node is dropped when its
\* distance is below the cutoff
RECURSIVE DijkstraLoopInverted(_, _, _, _)
DijkstraLoopInverted(G, cutoff, dist, seen) ==
    LET fringe == DOMAIN seen \ DOMAIN dist
    IN  IF fringe = {}
        THEN dist
        ELSE LET v == CHOOSE n \in fringe : \A m \in fringe : seen[n] <= seen[m]
                 d == seen[v]
                 dist2 == [n \in DOMAIN dist \cup {v} |-> IF n = v THEN d ELSE dist[n]]
                 upd == {u \in Successors(G, v) :
                            /\ ~(d + EdgeCost(G, v, u) < cutoff)
                            /\ u \notin DOMAIN dist2
                            /\ (u \notin DOMAIN seen \/ d + EdgeCost(G, v, u) < seen[u])}
                 seen2 == [n \in DOMAIN seen \cup upd |->
                              IF n \in upd THEN d + EdgeCost(G, v, n) ELSE seen[n]]
             IN  DijkstraLoopInverted(G, cutoff, dist2, seen2)

\* the loop of networkx's Dijkstra with a cutoff: dist holds the final
\* distances, seen the tentative ones; the fringe is seen minus dist
RECURSIVE DijkstraLoop(_, _, _, _)
DijkstraLoop(G, cutoff, dist, seen) ==
    LET fringe == DOMAIN seen \ DOMAIN dist
    IN  IF fringe = {}
        THEN dist
        ELSE LET v == CHOOSE n \in fringe : \A m \in fringe : seen[n] <= seen[m]
                 d == seen[v]
                 dist2 == [n \in DOMAIN dist \cup {v} |-> IF n = v THEN d ELSE dist[n]]
                 upd == {u \in Successors(G, v) :
                            /\ ~(d + EdgeCost(G, v, u) > cutoff)
                            /\ u \notin DOMAIN dist2
                            /\ (u \notin DOMAIN seen \/ d + EdgeCost(G, v, u) < seen[u])}
                 seen2 == [n \in DOMAIN seen \cup upd |->
                              IF n \in upd THEN d + EdgeCost(G, v, n) ELSE seen[n]]
             IN  DijkstraLoop(G, cutoff, dist2, seen2)

\* a search that tests the cutoff before it records the source
DijkstraPathLengthGuarded(G, source, cutoff) ==
    IF cutoff < 0
    THEN [n \in {} |-> 0]
    ELSE DijkstraLoop(G, cutoff, [n \in {} |-> 0], [n \in {source} |-> 0])

\* a search that reports the nodes it reached and leaves the source out
DijkstraPathLengthWithoutSource(G, source, cutoff) ==
    LET reached == DijkstraLoop(G, cutoff, [n \in {} |-> 0], [n \in {source} |-> 0])
    IN  [n \in DOMAIN reached \ {source} |-> reached[n]]

\* a search that reaches nothing, the source included, unless the cutoff is
\* positive
DijkstraPathLengthPositive(G, source, cutoff) ==
    IF cutoff <= 0
    THEN [n \in {} |-> 0]
    ELSE DijkstraLoop(G, cutoff, [n \in {} |-> 0], [n \in {source} |-> 0])

\* lines 107-112: nx.single_source_dijkstra_path_length(G, source, cutoff)
DijkstraPathLength(G, source, cutoff) ==
    DijkstraLoop(G, cutoff, [n \in {} |-> 0], [n \in {source} |-> 0])

\* the rows with one reachable endpoint or two
IsoEdgesEitherEndpoint(edges, reachable_nodes) ==
    {r \in edges : r[1] \in reachable_nodes \/ r[2] \in reachable_nodes}

\* the rows that leave a reachable node, wherever they end
IsoEdgesFromReachable(edges, reachable_nodes) ==
    {r \in edges : r[1] \in reachable_nodes}

\* lines 117-120: the rows whose two endpoints are reachable
IsoEdges(edges, reachable_nodes) ==
    {r \in edges : r[1] \in reachable_nodes /\ r[2] \in reachable_nodes}

NoFeature ==
    [geometry |-> [lines |-> {}, buffer |-> 0],
     properties |-> [mode |-> "", limit |-> 0, limit_type |-> "",
                     time_limit_sec |-> 0, source_node |-> 0, reachable_nodes |-> 0]]

\* lines 124-150: the Feature returned
MakeFeature(h, mode, limit, limit_type, time_limit, source_node, reachable_nodes, iso_edges) ==
    [geometry |-> [lines |-> iso_edges, buffer |-> h.buffer_size],
     properties |-> [mode |-> mode, limit |-> limit, limit_type |-> limit_type,
                     time_limit_sec |-> Round2(time_limit),
                     source_node |-> source_node,
                     reachable_nodes |-> Cardinality(reachable_nodes)]]

\* a call that raised err before it got to the search
Raised(err, lg) ==
    [outcome |-> err, hit |-> lg.hit, searched |-> FALSE,
     cache |-> lg.cache, reads |-> lg.reads, handle_id |-> lg.handle.id,
     time_limit |-> 0, source_node |-> 0, reachable_nodes |-> {}, iso_edges |-> {},
     feature |-> NoFeature]

\* lines 114-122: the error raised after the search ("ok" when none)
SearchOutcome(reachable_nodes, iso_edges) ==
    IF reachable_nodes = {} THEN "RuntimeError: no nodes"
    ELSE IF iso_edges = {} THEN "RuntimeError: no edges"
    ELSE "ok"

\* build_isochrone checking mode and limit_type before it asks for the graph
BuildIsochroneValidateFirst(cache, rd, dk, coord, mode, limit, limit_type, idx) ==
    LET nolg == [err |-> "", hit |-> FALSE, handle |-> NoHandle, cache |-> cache, reads |-> rd]
        lg == LoadGraph(cache, rd, dk, mode)
IN  IF ModeConfig(mode).ok /\ Validate(mode, limit_type) # ""
        THEN Raised(Validate(mode, limit_type), nolg)
        ELSE IF lg.err # "" THEN Raised(lg.err, lg)
        ELSE
        LET h == lg.handle
            time_limit == TimeLimit(limit, limit_type, h.speed_mps)
            source_node == idx
            reachable == DijkstraPathLength(h.graph, source_node, time_limit)
            reachable_nodes == DOMAIN reachable
            iso_edges == IsoEdges(h.edges, reachable_nodes)
            outcome == SearchOutcome(reachable_nodes, iso_edges)
        IN  [outcome |-> outcome, hit |-> lg.hit, searched |-> TRUE,
             cache |-> lg.cache, reads |-> lg.reads, handle_id |-> h.id,
             time_limit |-> time_limit, source_node |-> source_node,
             reachable_nodes |-> reachable_nodes, iso_edges |-> iso_edges,
             feature |-> IF outcome = "ok"
                         THEN MakeFeature(h, mode, limit, limit_type, time_limit,
                                          source_node, reachable_nodes, iso_edges)
                         ELSE NoFeature]

\* build_isochrone(coord, mode, limit, limit_type) run to its end; idx is the
\* node kdtree.query answers with
BuildIsochrone(cache, rd, dk, coord, mode, limit, limit_type, idx) ==
    LET lg == LoadGraph(cache, rd, dk, mode)
    IN  IF lg.err # "" THEN Raised(lg.err, lg)
        ELSE IF Validate(mode, limit_type) # "" THEN Raised(Validate(mode, limit_type), lg)
        ELSE
        LET h == lg.handle
            time_limit == TimeLimit(limit, limit_type, h.speed_mps)
            source_node == idx
            reachable == DijkstraPathLength(h.graph, source_node, time_limit)
            reachable_nodes == DOMAIN reachable
            iso_edges == IsoEdges(h.edges, reachable_nodes)
            outcome == SearchOutcome(reachable_nodes, iso_edges)
        IN  [outcome |-> outcome, hit |-> lg.hit, searched |-> TRUE,
             cache |-> lg.cache, reads |-> lg.reads, handle_id |-> h.id,
             time_limit |-> time_limit, source_node |-> source_node,
             reachable_nodes |-> reachable_nodes, iso_edges |-> iso_edges,
             feature |-> IF outcome = "ok"
                         THEN MakeFeature(h, mode, limit, limit_type, time_limit,
                                          source_node, reachable_nodes, iso_edges)
                         ELSE NoFeature]

\* the record of a call kept in `last`: its arguments and what it did
CallRecord(coord, mode, limit, limit_type, b) ==
    [op |-> "build_isochrone", coord |-> coord, mode |-> mode,
     limit |-> limit, limit_type |-> limit_type,
     outcome |-> b.outcome, hit |-> b.hit, searched |-> b.searched,
     handle_id |-> b.handle_id,
     time_limit |-> b.time_limit, source_node |-> b.source_node,
     reachable_nodes |-> b.reachable_nodes, iso_edges |-> b.iso_edges,
     feature |-> b.feature]

NoCall ==
    [op |-> "none", coord |-> 0, mode |-> "", limit |-> 0, limit_type |-> "",
     outcome |-> "", hit |-> FALSE, searched |-> FALSE,
     handle_id |-> 0, time_limit |-> 0, source_node |-> 0,
     reachable_nodes |-> {}, iso_edges |-> {}, feature |-> NoFeature]

-----------------------------------------------------------------------------
(* Geometry.  Positions are integers on a line, in grid units of the       *)
(* geographic frame; to_crs(epsg=utm_epsg) gives metres, MetresPerUnit to   *)
(* the unit.  A row <<u, v>> of the edge file is the segment between the    *)
(* positions of u and v.  The polygon of a Feature is the union of its      *)
(* segments, each thickened by the buffer; simplify() does not move the     *)
(* ends of an interval.  A point is a fraction num/den of grid units, in    *)
(* lowest terms.                                                            *)

MetresPerUnit == 50

MinOf(a, b) == IF a <= b THEN a ELSE b
MaxOf(a, b) == IF a <= b THEN b ELSE a

RECURSIVE Gcd(_, _)
Gcd(a, b) == IF b = 0 THEN a ELSE Gcd(b, a % b)

\* the point num/den, den > 0
Frac(num, den) ==
    LET g == Gcd(Abs(num), den)
    IN  [num |-> num \div g, den |-> den \div g]

\* Point(x) for a position x of the grid
PointAt(x) == Frac(x, 1)

\* to_crs(epsg=utm_epsg) and to_crs(epsg=4326) on a point
ToUtm(p) == Frac(p.num * MetresPerUnit, p.den)
FromUtm(p) == Frac(p.num, p.den * MetresPerUnit)

\* polygon.contains(point): the point lies strictly inside the buffer of one
\* of the segments; the polygon is made in metres (lines 124-129) and taken
\* back to the geographic frame (lines 132-136)
Contains(feature, p) ==
    \E r \in feature.geometry.lines :
        /\ (MinOf(NodeX(r[1]), NodeX(r[2])) * MetresPerUnit - feature.geometry.buffer) * ToUtm(p).den
                < ToUtm(p).num
        /\ ToUtm(p).num
                < (MaxOf(NodeX(r[1]), NodeX(r[2])) * MetresPerUnit + feature.geometry.buffer) * ToUtm(p).den

-----------------------------------------------------------------------------
(* accessibility_module *)

KindergartenWalkMeters == 500
SchoolWalkMeters == 500
SchoolDriveMinutes == 15
HospitalWalkMeters == 2000

\* the test made over every facility point, whatever its amenity
AnyInsideAnyAmenity(social, amenities, iso) ==
    \E f \in social : Contains(iso, PointAt(f.x))

\* any(_check_in_isochron(iso, pt) for pt in the points of these amenities)
AnyInside(social, amenities, iso) ==
    \E f \in social : f.amenity \in amenities /\ Contains(iso, PointAt(f.x))

\* a hospital check that counts hospitals with the clinics
HospitalAmenitiesWithHospitals == {"clinic", "hospital"}

\* line 43: SOCIAL_GDF["amenity"].isin(["clinic"])
HospitalAmenities == {"clinic"}

NoSuggestion ==
    [outcome |-> "", recommended_sites |-> <<>>, fallback_zone |-> NoFeature,
     criteria_used |-> <<>>]

\* a dict with a fourth category, college, judged over the school isochrones
AccessibilityResultWithCollege(social, kindergarten_iso, school_iso_walk, school_iso_drive, hospital_iso) ==
    [outcome |-> "ok",
     kindergarten |-> [ok |-> AnyInside(social, {"kindergarten"}, kindergarten_iso),
                       iso |-> kindergarten_iso, suggestions |-> NoSuggestion],
     school |-> [ok |-> \/ AnyInside(social, {"school"}, school_iso_walk)
                        \/ AnyInside(social, {"school"}, school_iso_drive),
                 iso_walk |-> school_iso_walk, iso_drive |-> school_iso_drive,
                 suggestions |-> NoSuggestion],
     college |-> [ok |-> \/ AnyInside(social, {"college"}, school_iso_walk)
                         \/ AnyInside(social, {"college"}, school_iso_drive),
                  iso_walk |-> school_iso_walk, iso_drive |-> school_iso_drive,
                  suggestions |-> NoSuggestion],
     hospital |-> [ok |-> AnyInside(social, HospitalAmenities, hospital_iso),
                   iso |-> hospital_iso, suggestions |-> NoSuggestion]]

\* the dict of lines 65-82
AccessibilityResult(social, kindergarten_iso, school_iso_walk, school_iso_drive, hospital_iso) ==
    [outcome |-> "ok",
     kindergarten |-> [ok |-> AnyInside(social, {"kindergarten"}, kindergarten_iso),
                       iso |-> kindergarten_iso, suggestions |-> NoSuggestion],
     school |-> [ok |-> \/ AnyInside(social, {"school"}, school_iso_walk)
                        \/ AnyInside(social, {"school"}, school_iso_drive),
                 iso_walk |-> school_iso_walk, iso_drive |-> school_iso_drive,
                 suggestions |-> NoSuggestion],
     hospital |-> [ok |-> AnyInside(social, HospitalAmenities, hospital_iso),
                   iso |-> hospital_iso, suggestions |-> NoSuggestion]]

\* no dict: analyze_accessibility was not called, or raised `outcome`
NoResult(outcome) ==
    [outcome |-> outcome,
     kindergarten |-> [ok |-> FALSE, iso |-> NoFeature, suggestions |-> NoSuggestion],
     school |-> [ok |-> FALSE, iso_walk |-> NoFeature, iso_drive |-> NoFeature,
                 suggestions |-> NoSuggestion],
     hospital |-> [ok |-> FALSE, iso |-> NoFeature, suggestions |-> NoSuggestion]]

NoAccessibility == NoResult("")

\* the value of a call, computed once
Only(S) == CHOOSE x \in S : TRUE

\* analyze_accessibility(coord) is the four build_isochrone calls of
\* _check_kindergarten, _check_school and _check_hospital in their order;
\* the first that raises ends the analysis with its error.  pick[m] is the
\* node the index of mode m answers coord with.  Each step below takes what
\* the calls before it returned (b1, b2, b3), makes the next call, and gives
\* the dict returned (or the error) with the cache and the read counts left
\* behind.

\* line 62, _check_hospital, and lines 65-84
AnalysisFromHospital(dk, social, coord, pick, b1, b2, b3) ==
    Only({[cache |-> b4.cache, reads |-> b4.reads,
           result |-> IF b4.outcome = "ok"
                      THEN AccessibilityResult(social, b1.feature, b2.feature,
                                               b3.feature, b4.feature)
                      ELSE NoResult(b4.outcome)] :
          b4 \in {IF b3.outcome # "ok" THEN b3
                  ELSE BuildIsochrone(b3.cache, b3.reads, dk, coord, "walk",
                                      HospitalWalkMeters, "meters", pick["walk"])}})

\* line 32, the drive isochrone of _check_school
AnalysisFromSchoolDrive(dk, social, coord, pick, b1, b2) ==
    Only({AnalysisFromHospital(dk, social, coord, pick, b1, b2, b3) :
          b3 \in {IF b2.outcome # "ok" THEN b2
                  ELSE BuildIsochrone(b2.cache, b2.reads, dk, coord, "drive",
                                      SchoolDriveMinutes, "minutes", pick["drive"])}})

\* line 31, the walk isochrone of _check_school
AnalysisFromSchoolWalk(dk, social, coord, pick, b1) ==
    Only({AnalysisFromSchoolDrive(dk, social, coord, pick, b1, b2) :
          b2 \in {IF b1.outcome # "ok" THEN b1
                  ELSE BuildIsochrone(b1.cache, b1.reads, dk, coord, "walk",
                                      SchoolWalkMeters, "meters", pick["walk"])}})

\* line 60, _check_kindergarten, and the rest
Analysis(cache, rd, dk, social, coord, pick) ==
    Only({AnalysisFromSchoolWalk(dk, social, coord, pick, b1) :
          b1 \in {BuildIsochrone(cache, rd, dk, coord, "walk",
                                 KindergartenWalkMeters, "meters", pick["walk"])}})

DoAnalyzeAccessibility(coord) ==
    \E pick \in [Modes -> KdQuery(Nodes, coord)] :
    \E a \in {Analysis(GRAPH_CACHE, reads, disk, SOCIAL_GDF, coord, pick)} :
        /\ \A m \in Modes : a.reads[m].graph <= MaxReads
        /\ GRAPH_CACHE' = a.cache
        /\ reads' = a.reads
        /\ acc' = a.result
        /\ UNCHANGED <<disk, last, prev, th, refdata, final, sugg, clu, pcall, run>>

-----------------------------------------------------------------------------
(* placement_module *)

RadiusMeters == 200
MinClusterSize == 3
SchoolMaxSites == 3
HospitalMaxSites == 2

\* tree.query_ball_point(point, r): every point of the frame within r of
\* coords[idx], the boundary and the points already visited included
QueryBallPoint(coords, idx, r) ==
    {j \in 1..Len(coords) :
        \/ /\ coords[j].num * coords[idx].den >= coords[idx].num * coords[j].den
           /\ coords[j].num * coords[idx].den - coords[idx].num * coords[j].den
                  <= r * coords[j].den * coords[idx].den
        \/ /\ coords[j].num * coords[idx].den < coords[idx].num * coords[j].den
           /\ coords[idx].num * coords[j].den - coords[j].num * coords[idx].den
                  <= r * coords[j].den * coords[idx].den}

RECURSIVE SumOf(_, _)
SumOf(coords, indices) ==
    IF indices = {} THEN 0
    ELSE LET j == CHOOSE i \in indices : TRUE
         IN  coords[j].num + SumOf(coords, indices \ {j})

\* coords[indices].mean(axis=0), the coordinates being whole metres
Mean(coords, indices) == Frac(SumOf(coords, indices), Cardinality(indices))

\* the loop forming each group from the points no earlier group has claimed
RECURSIVE ClusterLoopUnclaimedOnly(_, _, _, _, _, _)
ClusterLoopUnclaimedOnly(coords, radius_meters, min_cluster_size, idx, visited, clusters) ==
    IF idx > Len(coords) THEN clusters
    ELSE IF idx \in visited
    THEN ClusterLoopUnclaimedOnly(coords, radius_meters, min_cluster_size, idx + 1,
                                  visited, clusters)
    ELSE LET indices == QueryBallPoint(coords, idx, radius_meters) \ visited
         IN  IF Cardinality(indices) >= min_cluster_size
             THEN ClusterLoopUnclaimedOnly(coords, radius_meters, min_cluster_size, idx + 1,
                              visited \cup indices,
                              Append(clusters, [seed |-> idx, indices |-> indices,
                                                centroid |-> Mean(coords, indices)]))
             ELSE ClusterLoopUnclaimedOnly(coords, radius_meters, min_cluster_size, idx + 1,
                              visited, clusters)

\* lines 32-40: the loop over the points, in the order of the frame; each
\* centroid appended is kept with the indices it was averaged over
RECURSIVE ClusterLoop(_, _, _, _, _, _)
ClusterLoop(coords, radius_meters, min_cluster_size, idx, visited, clusters) ==
    IF idx > Len(coords) THEN clusters
    ELSE IF idx \in visited
    THEN ClusterLoop(coords, radius_meters, min_cluster_size, idx + 1, visited, clusters)
    ELSE LET indices == QueryBallPoint(coords, idx, radius_meters)
         IN  IF Cardinality(indices) >= min_cluster_size
             THEN ClusterLoop(coords, radius_meters, min_cluster_size, idx + 1,
                              visited \cup indices,
                              Append(clusters, [seed |-> idx, indices |-> indices,
                                                centroid |-> Mean(coords, indices)]))
             ELSE ClusterLoop(coords, radius_meters, min_cluster_size, idx + 1,
                              visited, clusters)

\* lines 24-26: the points of the frame in metres
ClusterCoords(gdf) == [i \in 1..Len(gdf) |-> ToUtm(PointAt(gdf[i]))]

\* find_residential_clusters(gdf, radius_meters, min_cluster_size), gdf a
\* sequence of grid positions
FindResidentialClusters(gdf, radius_meters, min_cluster_size) ==
    LET clusters == ClusterLoop(ClusterCoords(gdf), radius_meters, min_cluster_size,
                                1, {}, <<>>)
    IN  [i \in 1..Len(clusters) |-> FromUtm(clusters[i].centroid)]

\* no call of find_residential_clusters yet
NoClustering ==
    [op |-> "none", gdf |-> <<>>, radius_meters |-> 0, min_cluster_size |-> 0,
     clusters |-> <<>>, centroids |-> <<>>]

\* RESIDENTIAL_GDF[RESIDENTIAL_GDF.geometry.apply(... polygon.contains ...)]
ResidentialIn(residential, polygon) ==
    SelectSeq(residential, LAMBDA x : Contains(polygon, PointAt(x)))

\* row.geometry.centroid of a zone
Centroid(zone) == Frac(zone.lo + zone.hi, 2)

\* the rows of LOW_DENSITY_GDF whose centre the polygon contains; iterrows
\* gives row i of the file the index i - 1
ZonesIn(low_density, polygon) ==
    {i \in 1..Len(low_density) : Contains(polygon, Centroid(low_density[i]))}

FirstOf(S) == CHOOSE i \in S : \A j \in S : i <= j

\* seq[:n]
Take(seq, n) == SubSeq(seq, 1, MinOf(n, Len(seq)))

\* iso_feature["geometry"] on None
SuggestRaised(err) ==
    [outcome |-> err, recommended_sites |-> <<>>, fallback_zone |-> NoFeature,
     criteria_used |-> <<>>]

\* a dict that carries the zone whether or not a site was found
SuggestionAlwaysZone(recommended_sites, zone, criteria_used) ==
    [outcome |-> "ok",
     recommended_sites |-> recommended_sites,
     fallback_zone |-> zone,
     criteria_used |-> criteria_used]

\* the dict the three functions return: the zone only when no site was found
Suggestion(recommended_sites, zone, criteria_used) ==
    [outcome |-> "ok",
     recommended_sites |-> recommended_sites,
     fallback_zone |-> IF recommended_sites = <<>> THEN zone ELSE NoFeature,
     criteria_used |-> criteria_used]

\* a kindergarten recommendation that repeats the tag for every site
SuggestKindergartenTagPerSite(iso_feature, residential) ==
    IF iso_feature = NoFeature THEN SuggestRaised("TypeError")
    ELSE LET residential_in_zone == ResidentialIn(residential, iso_feature)
             cluster_centers == IF residential_in_zone # <<>>
                                THEN FindResidentialClusters(residential_in_zone, RadiusMeters, MinClusterSize)
                                ELSE <<>>
         IN  Suggestion(cluster_centers, iso_feature,
                 IF cluster_centers # <<>>
                 THEN [i \in 1..Len(cluster_centers) |->
                          "clustered residential buildings within 500m walk isochrone"]
                 ELSE <<"fallback: full isochrone zone">>)

\* suggest_kindergarten(iso_feature)
SuggestKindergarten(iso_feature, residential) ==
    IF iso_feature = NoFeature THEN SuggestRaised("TypeError")
    ELSE LET residential_in_zone == ResidentialIn(residential, iso_feature)
             cluster_centers == IF residential_in_zone # <<>>
                                THEN FindResidentialClusters(residential_in_zone, RadiusMeters, MinClusterSize)
                                ELSE <<>>
         IN  Suggestion(cluster_centers, iso_feature,
                 IF cluster_centers # <<>>
                 THEN <<"clustered residential buildings within 500m walk isochrone">>
                 ELSE <<"fallback: full isochrone zone">>)

\* f"zone_{idx}_center within ..."
ZoneCriterion(i, where) == "zone_" \o ToString(i - 1) \o "_center within " \o where

\* visualize_analys.NODES_GDF: the nodes of the major roads, in file order;
\* the map draws them, the recommendations do not read them
NODES_GDF == <<20, 26>>

\* a school recommendation with a third stage: the major-road nodes inside
\* the drive isochrone, tagged "road node"
SuggestSchoolWithRoadNodes(iso_walk, iso_drive, residential, low_density) ==
    IF iso_walk = NoFeature \/ iso_drive = NoFeature THEN SuggestRaised("TypeError")
    ELSE LET zones == ZonesIn(low_density, iso_walk)
             residential_in_drive == ResidentialIn(residential, iso_drive)
             cluster_centers == IF residential_in_drive # <<>>
                                THEN FindResidentialClusters(residential_in_drive, RadiusMeters, MinClusterSize)
                                ELSE <<>>
             road_nodes == SelectSeq(NODES_GDF, LAMBDA x : Contains(iso_drive, PointAt(x)))
         IN  IF zones # {}
             THEN Suggestion(<<Centroid(low_density[FirstOf(zones)])>>, iso_drive,
                             <<ZoneCriterion(FirstOf(zones), "walk isochrone")>>)
             ELSE IF cluster_centers # <<>>
             THEN Suggestion(Take(cluster_centers, SchoolMaxSites), iso_drive,
                     <<"clustered residential buildings within drive isochrone">>)
             ELSE IF road_nodes # <<>>
             THEN Suggestion([i \in 1..Len(road_nodes) |-> PointAt(road_nodes[i])],
                             iso_drive, <<"road node">>)
             ELSE Suggestion(<<>>, iso_drive, <<"fallback: full drive isochrone zone">>)

\* a school recommendation that falls back on the walk isochrone
SuggestSchoolWalkZone(iso_walk, iso_drive, residential, low_density) ==
    IF iso_walk = NoFeature \/ iso_drive = NoFeature THEN SuggestRaised("TypeError")
    ELSE LET zones == ZonesIn(low_density, iso_walk)
             residential_in_drive == ResidentialIn(residential, iso_drive)
             cluster_centers == IF residential_in_drive # <<>>
                                THEN FindResidentialClusters(residential_in_drive, RadiusMeters, MinClusterSize)
                                ELSE <<>>
         IN  IF zones # {}
             THEN Suggestion(<<Centroid(low_density[FirstOf(zones)])>>, iso_walk,
                             <<ZoneCriterion(FirstOf(zones), "walk isochrone")>>)
             ELSE Suggestion(Take(cluster_centers, SchoolMaxSites), iso_walk,
                     IF cluster_centers # <<>>
                     THEN <<"clustered residential buildings within drive isochrone">>
                     ELSE <<"fallback: full drive isochrone zone">>)

\* suggest_school(iso_walk, iso_drive)
SuggestSchool(iso_walk, iso_drive, residential, low_density) ==
    IF iso_walk = NoFeature \/ iso_drive = NoFeature THEN SuggestRaised("TypeError")
    ELSE LET zones == ZonesIn(low_density, iso_walk)
             residential_in_drive == ResidentialIn(residential, iso_drive)
             cluster_centers == IF residential_in_drive # <<>>
                                THEN FindResidentialClusters(residential_in_drive, RadiusMeters, MinClusterSize)
                                ELSE <<>>
         IN  IF zones # {}
             THEN Suggestion(<<Centroid(low_density[FirstOf(zones)])>>, iso_drive,
                             <<ZoneCriterion(FirstOf(zones), "walk isochrone")>>)
             ELSE Suggestion(Take(cluster_centers, SchoolMaxSites), iso_drive,
                     IF cluster_centers # <<>>
                     THEN <<"clustered residential buildings within drive isochrone">>
                     ELSE <<"fallback: full drive isochrone zone">>)

\* a hospital recommendation that tries the residential clusters first and
\* the zone centres after them
SuggestHospitalClustersFirst(iso_feature, residential, low_density) ==
    IF iso_feature = NoFeature THEN SuggestRaised("TypeError")
    ELSE LET zones == ZonesIn(low_density, iso_feature)
             residential_in_zone == ResidentialIn(residential, iso_feature)
             cluster_centers == IF residential_in_zone # <<>>
                                THEN FindResidentialClusters(residential_in_zone, RadiusMeters, MinClusterSize)
                                ELSE <<>>
         IN  IF cluster_centers # <<>>
             THEN Suggestion(Take(cluster_centers, HospitalMaxSites), iso_feature,
                     <<"clustered residential buildings within 2km walk isochrone">>)
             ELSE IF zones # {}
             THEN Suggestion(<<Centroid(low_density[FirstOf(zones)])>>, iso_feature,
                             <<ZoneCriterion(FirstOf(zones), "2km walk isochrone")>>)
             ELSE Suggestion(<<>>, iso_feature,
                             <<"fallback: full 2km walk isochrone zone">>)

\* suggest_hospital(iso_feature)
SuggestHospital(iso_feature, residential, low_density) ==
    IF iso_feature = NoFeature THEN SuggestRaised("TypeError")
    ELSE LET zones == ZonesIn(low_density, iso_feature)
             residential_in_zone == ResidentialIn(residential, iso_feature)
             cluster_centers == IF residential_in_zone # <<>>
                                THEN FindResidentialClusters(residential_in_zone, RadiusMeters, MinClusterSize)
                                ELSE <<>>
         IN  IF zones # {}
             THEN Suggestion(<<Centroid(low_density[FirstOf(zones)])>>, iso_feature,
                             <<ZoneCriterion(FirstOf(zones), "2km walk isochrone")>>)
             ELSE Suggestion(Take(cluster_centers, HospitalMaxSites), iso_feature,
                     IF cluster_centers # <<>>
                     THEN <<"clustered residential buildings within 2km walk isochrone">>
                     ELSE <<"fallback: full 2km walk isochrone zone">>)

\* a generation that makes a recommendation for every category, whatever
\* its verdict
GenerateForEveryCategory(accessibility_result, residential, low_density) ==
    [accessibility_result EXCEPT
        !.kindergarten.suggestions =
            SuggestKindergarten(accessibility_result.kindergarten.iso, residential),
        !.school.suggestions =
            SuggestSchool(accessibility_result.school.iso_walk,
                          accessibility_result.school.iso_drive,
                          residential, low_density),
        !.hospital.suggestions =
            SuggestHospital(accessibility_result.hospital.iso, residential, low_density)]

\* generate_placement_suggestions(accessibility_result): the dict returned.
\* result is a copy of the outer dict only, so the three inner dicts written
\* to are those of the argument.
GeneratePlacementSuggestions(accessibility_result, residential, low_density) ==
    [accessibility_result EXCEPT
        !.kindergarten.suggestions =
            IF ~accessibility_result.kindergarten.ok
            THEN SuggestKindergarten(accessibility_result.kindergarten.iso, residential)
            ELSE @,
        !.school.suggestions =
            IF ~accessibility_result.school.ok
            THEN SuggestSchool(accessibility_result.school.iso_walk,
                               accessibility_result.school.iso_drive,
                               residential, low_density)
            ELSE @,
        !.hospital.suggestions =
            IF ~accessibility_result.hospital.ok
            THEN SuggestHospital(accessibility_result.hospital.iso, residential, low_density)
            ELSE @]

ObjectTypes == {"kindergarten", "school", "hospital"}
ObjectTypeArgs == ObjectTypes \cup {"college"}

\* a dispatch that sends every other object type to suggest_school
PlacementSuggestionsOthersAsSchool(object_type, iso_walk, iso_drive, residential, low_density) ==
    IF object_type = "kindergarten" THEN SuggestKindergarten(iso_walk, residential)
    ELSE IF object_type = "hospital"
         THEN SuggestHospital(iso_walk, residential, low_density)
    ELSE SuggestSchool(iso_walk, iso_drive, residential, low_density)

\* placement_suggestions(object_type, iso_walk, iso_drive)
PlacementSuggestions(object_type, iso_walk, iso_drive, residential, low_density) ==
    IF object_type = "kindergarten" THEN SuggestKindergarten(iso_walk, residential)
    ELSE IF object_type = "school"
         THEN SuggestSchool(iso_walk, iso_drive, residential, low_density)
    ELSE IF object_type = "hospital"
         THEN SuggestHospital(iso_walk, residential, low_density)
    ELSE SuggestRaised("ValueError")

\* the caller holds the dict of a finished analysis and hands it over; what
\* it gets back and what it handed over hold the same three inner dicts
DoGeneratePlacementSuggestions ==
    /\ acc.outcome = "ok"
    /\ \E result \in {GeneratePlacementSuggestions(acc, RESIDENTIAL_GDF, LOW_DENSITY_GDF)} :
            /\ final' = result
            /\ acc' = result
    /\ UNCHANGED <<disk, GRAPH_CACHE, reads, last, prev, th, refdata, sugg, clu, pcall, run>>

\* the zones a caller has at hand: those of the analysis it holds, or None
IsoWalkArgs == {NoFeature, acc.kindergarten.iso, acc.hospital.iso}
IsoDriveArgs == {NoFeature, acc.school.iso_drive}

\* no call of placement_suggestions yet
NoPlacementCall == [object_type |-> "", iso_walk |-> NoFeature, iso_drive |-> NoFeature]

\* no run of a driver yet
NoRun ==
    [op |-> "none", outcome |-> "", accessibility |-> NoAccessibility,
     recommendations |-> <<>>]

DoPlacementSuggestions(object_type, iso_walk, iso_drive) ==
    /\ sugg' = PlacementSuggestions(object_type, iso_walk, iso_drive,
                                    RESIDENTIAL_GDF, LOW_DENSITY_GDF)
    /\ pcall' = [object_type |-> object_type, iso_walk |-> iso_walk, iso_drive |-> iso_drive]
    /\ UNCHANGED <<disk, GRAPH_CACHE, reads, last, prev, th, refdata, acc, final, clu, run>>

-----------------------------------------------------------------------------
(* The program as it runs: one call at a time *)

IdleThread == [pc |-> "idle", mode |-> "", handle |-> NoHandle, got |-> NoHandle]

InitCommon ==
    /\ GRAPH_CACHE = [m \in {} |-> NoHandle]
    /\ reads = [m \in Modes |-> [graph |-> 0, edges |-> 0]]
    /\ last = NoCall
    /\ prev = NoCall
    /\ th = [t \in Threads |-> IdleThread]
    /\ acc = NoAccessibility
    /\ final = NoAccessibility
    /\ sugg = NoSuggestion
    /\ clu = NoClustering
    /\ pcall = NoPlacementCall
    /\ run = NoRun

\* no reference data: the specifications of the isochrone engine do not read them
NoRefData ==
    /\ SOCIAL_GDF = {}
    /\ RESIDENTIAL_GDF = <<>>
    /\ LOW_DENSITY_GDF = <<>>

Init ==
    /\ disk \in [Modes -> UNION {DiskContents(m) : m \in Modes}]
    /\ \A m \in Modes : disk[m] \in DiskContents(m)
    /\ InitCommon
    /\ NoRefData

\* a caller calls build_isochrone(coord, mode, limit, limit_type)
DoBuildIsochrone(coord, mode, limit, limit_type) ==
    \E idx \in KdQuery(Nodes, coord) :
        \E b \in {BuildIsochrone(GRAPH_CACHE, reads, disk, coord, mode, limit, limit_type, idx)} :
            /\ \A m \in Modes : b.reads[m].graph <= MaxReads
            /\ GRAPH_CACHE' = b.cache
            /\ reads' = b.reads
            /\ last' = CallRecord(coord, mode, limit, limit_type, b)
            /\ UNCHANGED <<disk, th, refdata>>

CallBuildIsochrone ==
    \E coord \in Coords, mode \in ModeArgs, limit \in Limits, limit_type \in LimitTypeArgs :
        DoBuildIsochrone(coord, mode, limit, limit_type) /\ UNCHANGED <<prev, flow>>

Next == CallBuildIsochrone

Spec == Init /\ [][Next]_vars

-----------------------------------------------------------------------------
(* A run that builds two isochrones from one origin, one after the other,  *)
(* and ends (the loop of iso_test.main over its two TEST_CASES); the first *)
(* call is kept in prev, the second in last.                               *)

PairInit ==
    /\ disk \in [Modes -> UNION {DiskContents(m) : m \in Modes}]
    /\ \A m \in Modes : disk[m] \in DiskContents(m) /\ disk[m].status = "ok"
    /\ InitCommon
    /\ NoRefData

\* pick[m] is the node the index of mode m answers coord with: the same
\* node each time the same index is asked about the same point
DoBuildIsochroneTwice(coord, mode1, limit1, limit_type1, mode2, limit2, limit_type2) ==
    \E pick \in [Modes -> KdQuery(Nodes, coord)] :
        \E b1 \in {BuildIsochrone(GRAPH_CACHE, reads, disk, coord, mode1, limit1, limit_type1, pick[mode1])} :
            \E b2 \in {BuildIsochrone(b1.cache, b1.reads, disk, coord, mode2, limit2, limit_type2, pick[mode2])} :
                /\ GRAPH_CACHE' = b2.cache
                /\ reads' = b2.reads
                /\ prev' = CallRecord(coord, mode1, limit1, limit_type1, b1)
                /\ last' = CallRecord(coord, mode2, limit2, limit_type2, b2)
                /\ UNCHANGED <<disk, th, refdata, flow>>

CallBuildIsochroneTwice ==
    /\ last.op = "none"
    /\ \E coord \in Coords, mode1 \in Modes, mode2 \in Modes, limit1 \in Limits, limit2 \in Limits :
        \E limit_type1 \in {"meters", "minutes"}, limit_type2 \in {"meters", "minutes"} :
            DoBuildIsochroneTwice(coord, mode1, limit1, limit_type1, mode2, limit2, limit_type2)

PairNext == CallBuildIsochroneTwice

PairSpec == PairInit /\ [][PairNext]_vars

-----------------------------------------------------------------------------
(* Threads that call _load_graph at the same time.  A thread may be        *)
(* switched out between the lookup of line 17, the reads of lines 33-56,   *)
(* the store of line 58 and the lookup of line 69.                         *)

ConcDiskContents(mode) ==
    {[status |-> "ok", net |-> IF mode = "walk" THEN WalkCandidates ELSE DriveNet]}
    \cup {[status |-> s, net |-> {}] : s \in {"nograph", "badedges"}}

ConcInit ==
    /\ disk \in [Modes -> UNION {ConcDiskContents(m) : m \in Modes}]
    /\ \A m \in Modes : disk[m] \in ConcDiskContents(m)
    /\ InitCommon
    /\ NoRefData

\* lines 17-31: the call, the lookup, the choice of the paths
LgCall(t, mode) ==
    /\ th[t].pc = "idle"
    /\ th' = [th EXCEPT ![t] =
            IF mode \in DOMAIN GRAPH_CACHE
            THEN [pc |-> "done", mode |-> mode, handle |-> NoHandle, got |-> GRAPH_CACHE[mode]]
            ELSE IF ~ModeConfig(mode).ok
            THEN [pc |-> "raised", mode |-> mode, handle |-> NoHandle, got |-> NoHandle]
            ELSE [pc |-> "reading", mode |-> mode, handle |-> NoHandle, got |-> NoHandle]]
    /\ UNCHANGED <<disk, GRAPH_CACHE, reads, last, prev, refdata, flow>>

\* lines 33-56: the files are read and the handle's parts are built
LgRead(t) ==
    /\ th[t].pc = "reading"
    /\ reads[th[t].mode].graph < MaxReads
    /\ reads' = CountReads(reads, th[t].mode, disk[th[t].mode])
    /\ th' = [th EXCEPT ![t] =
            IF disk[th[t].mode].status # "ok"
            THEN [@ EXCEPT !.pc = "raised"]
            ELSE [@ EXCEPT !.pc = "store",
                           !.handle = MakeHandle(th[t].mode, disk[th[t].mode],
                                                 reads[th[t].mode].graph + 1)]]
    /\ UNCHANGED <<disk, GRAPH_CACHE, last, prev, refdata, flow>>

\* line 58
LgStore(t) ==
    /\ th[t].pc = "store"
    /\ GRAPH_CACHE' = CacheStore(GRAPH_CACHE, th[t].mode, th[t].handle)
    /\ th' = [th EXCEPT ![t].pc = "return"]
    /\ UNCHANGED <<disk, reads, last, prev, refdata, flow>>

\* line 69
LgReturn(t) ==
    /\ th[t].pc = "return"
    /\ th' = [th EXCEPT ![t].pc = "done", ![t].got = GRAPH_CACHE[th[t].mode]]
    /\ UNCHANGED <<disk, GRAPH_CACHE, reads, last, prev, refdata, flow>>

\* the caller has its answer and may call again
LgFinish(t) ==
    /\ th[t].pc \in {"done", "raised"}
    /\ th' = [th EXCEPT ![t] = IdleThread]
    /\ UNCHANGED <<disk, GRAPH_CACHE, reads, last, prev, refdata, flow>>

ConcNext ==
    \E t \in Threads :
        \/ \E mode \in ModeArgs : LgCall(t, mode)
        \/ LgRead(t)
        \/ LgStore(t)
        \/ LgReturn(t)
        \/ LgFinish(t)

ConcSpec == ConcInit /\ [][ConcNext]_vars

-----------------------------------------------------------------------------
(* The evaluation of a house: isochrones, analysis and recommendations, one *)
(* call at a time, over small reference data                                *)

FlowWalkNets == {WalkCandidates, {<<1, 2, 300>>}}

FlowDiskContents(mode) ==
    {[status |-> "ok", net |-> n] :
        n \in IF mode = "walk" THEN FlowWalkNets ELSE {DriveNet}}
    \cup {[status |-> "nograph", net |-> {}]}

Facilities ==
    {[amenity |-> "kindergarten", x |-> 12], [amenity |-> "school", x |-> 21],
     [amenity |-> "clinic", x |-> 30]}

OtherFacilities ==
    {[amenity |-> "hospital", x |-> 12], [amenity |-> "college", x |-> 12],
     [amenity |-> "school", x |-> 40]}

\* the three data files of a region, together
RefDataFamilies ==
    {[social |-> {}, residential |-> <<>>, low_density |-> <<>>],
     [social |-> Facilities, residential |-> <<10, 12, 14, 18, 20>>,
      low_density |-> <<[lo |-> 38, hi |-> 42], [lo |-> 11, hi |-> 14]>>],
     [social |-> OtherFacilities, residential |-> <<12, 27, 28, 29, 40>>,
      low_density |-> <<[lo |-> 26, hi |-> 30]>>],
     [social |-> OtherFacilities, residential |-> <<10, 12, 14, 18, 20>>,
      low_density |-> <<>>],
     [social |-> OtherFacilities, residential |-> <<>>,
      low_density |-> <<[lo |-> 38, hi |-> 42], [lo |-> 11, hi |-> 14]>>]}

FlowInit ==
    /\ disk \in [Modes -> UNION {FlowDiskContents(m) : m \in Modes}]
    /\ \A m \in Modes : disk[m] \in FlowDiskContents(m)
    /\ InitCommon
    /\ \E d \in RefDataFamilies :
          /\ SOCIAL_GDF = d.social
          /\ RESIDENTIAL_GDF = d.residential
          /\ LOW_DENSITY_GDF = d.low_density

\* the calls of the analysis, made on their own
FlowBuildIsochrone ==
    \E coord \in Coords, mode \in Modes :
        /\ IF mode = "walk"
           THEN DoBuildIsochrone(coord, mode, KindergartenWalkMeters, "meters")
           ELSE DoBuildIsochrone(coord, mode, SchoolDriveMinutes, "minutes")
        /\ UNCHANGED <<prev, flow>>

AnalyzeAccessibility == \E coord \in Coords : DoAnalyzeAccessibility(coord)

CallPlacementSuggestions ==
    \E object_type \in ObjectTypeArgs, iso_walk \in IsoWalkArgs, iso_drive \in IsoDriveArgs :
        DoPlacementSuggestions(object_type, iso_walk, iso_drive)

FlowNext ==
    \/ FlowBuildIsochrone
    \/ AnalyzeAccessibility
    \/ DoGeneratePlacementSuggestions

FlowSpec == FlowInit /\ [][FlowNext]_vars

-----------------------------------------------------------------------------
(* placement_suggestions called by hand on the zones of an analysis *)

PlaceNext ==
    \/ AnalyzeAccessibility
    \/ CallPlacementSuggestions

PlaceSpec == FlowInit /\ [][PlaceNext]_vars

-----------------------------------------------------------------------------
(* find_residential_clusters on its own: one frame of points is clustered   *)
(* and the run ends                                                         *)

ClusterPositions == {10, 12, 14, 18, 20}
ClusterRadii == {100, 200}
ClusterMinSizes == {1, 2, 3}

Frames == UNION {[1..n -> ClusterPositions] : n \in 0..MaxPoints}

ClusterInit ==
    /\ disk = [m \in Modes |-> [status |-> "nograph", net |-> {}]]
    /\ InitCommon
    /\ NoRefData

\* the call, with the groups its loop formed and the list it returned
DoFindResidentialClusters(gdf, radius_meters, min_cluster_size) ==
    /\ clu' = [op |-> "find_residential_clusters", gdf |-> gdf,
               radius_meters |-> radius_meters, min_cluster_size |-> min_cluster_size,
               clusters |-> ClusterLoop(ClusterCoords(gdf), radius_meters,
                                        min_cluster_size, 1, {}, <<>>),
               centroids |-> FindResidentialClusters(gdf, radius_meters, min_cluster_size)]
    /\ UNCHANGED <<disk, GRAPH_CACHE, reads, last, prev, th, refdata, acc, final, sugg, pcall, run>>

CallFindResidentialClusters ==
    /\ clu.op = "none"
    /\ \E gdf \in Frames, radius_meters \in ClusterRadii, min_cluster_size \in ClusterMinSizes :
          DoFindResidentialClusters(gdf, radius_meters, min_cluster_size)

ClusterNext == CallFindResidentialClusters

ClusterSpec == ClusterInit /\ [][ClusterNext]_vars

-----------------------------------------------------------------------------
(* The drivers: main.run_analysis_and_suggestions and                       *)
(* test_placement.test_accessibility_and_placement                         *)

\* the keys of the dict analyze_accessibility returns, in its order
CategoryOrder == <<"kindergarten", "school", "hospital">>

\* placement_suggestions(**kw): a keyword the signature does not have, or no
\* object_type, is a TypeError before the body runs; iso_walk and iso_drive
\* default to None
CallWithKeywords(kw, residential, low_density) ==
    IF ~(DOMAIN kw \subseteq {"object_type", "iso_walk", "iso_drive"})
          \/ "object_type" \notin DOMAIN kw
    THEN SuggestRaised("TypeError")
    ELSE PlacementSuggestions(kw.object_type,
             IF "iso_walk" \in DOMAIN kw THEN kw.iso_walk ELSE NoFeature,
             IF "iso_drive" \in DOMAIN kw THEN kw.iso_drive ELSE NoFeature,
             residential, low_density)

\* main.py lines 38-48: the keywords of the call for a category
MainKeywords(result, obj_type) ==
    [obj_type |-> obj_type,
     broken_iso |-> IF obj_type = "school" THEN result.school.iso_walk
                    ELSE result[obj_type].iso]

\* test_placement.py lines 142-149: the keywords of the call for a category;
\* the dict of hospital has no key iso_drive, so info.get gives None
TestKeywords(result, obj_type) ==
    IF obj_type = "kindergarten"
    THEN [object_type |-> "kindergarten", iso_walk |-> result.kindergarten.iso]
    ELSE IF obj_type = "school"
    THEN [object_type |-> "school", iso_walk |-> result.school.iso_walk,
          iso_drive |-> result.school.iso_drive]
    ELSE [object_type |-> "hospital", iso_drive |-> NoFeature]

\* the categories of the dict whose verdict is negative
Failing(result) == {c \in ObjectTypes : ~result[c].ok}

\* the first call of the loop that raised, if any
FirstRaised(recs) ==
    LET raised == {i \in DOMAIN CategoryOrder :
                      /\ CategoryOrder[i] \in DOMAIN recs
                      /\ recs[CategoryOrder[i]].outcome # "ok"}
    IN  IF raised = {} THEN "ok" ELSE recs[CategoryOrder[FirstOf(raised)]].outcome

\* what a driver ends with: the error of the analysis, the error of the first
\* call that raised, or the dict of recommendations
RunRecord(op, result, recs, report) ==
    [op |-> op,
     outcome |-> IF result.outcome # "ok" THEN result.outcome
                 ELSE IF FirstRaised(recs) # "ok" THEN FirstRaised(recs)
                 ELSE report,
     accessibility |-> result,
     recommendations |-> IF result.outcome = "ok" /\ FirstRaised(recs) = "ok" /\ report = "ok"
                         THEN recs ELSE <<>>]

\* main.py lines 33-54
RunAnalysisAndSuggestions(result, residential, low_density) ==
    LET recs == [c \in Failing(result) |->
                    CallWithKeywords(MainKeywords(result, c), residential, low_density)]
    IN  RunRecord("run_analysis_and_suggestions", result,
                  IF result.outcome = "ok" THEN recs ELSE <<>>, "ok")

\* test_placement.py lines 115-128, print_report: rec['fallback_zone']['geometry']
\* of a recommendation without fallback zone is a TypeError
PrintReport(recs) ==
    IF \E c \in DOMAIN recs : recs[c].fallback_zone = NoFeature
    THEN "TypeError" ELSE "ok"

\* test_placement.py lines 132-155, up to the report
TestAccessibilityAndPlacement(result, residential, low_density) ==
    LET recs == [c \in Failing(result) |->
                    CallWithKeywords(TestKeywords(result, c), residential, low_density)]
    IN  RunRecord("test_accessibility_and_placement", result,
                  IF result.outcome = "ok" THEN recs ELSE <<>>,
                  IF result.outcome = "ok" /\ FirstRaised(recs) = "ok"
                  THEN PrintReport(recs) ELSE "ok")

DoRunAnalysisAndSuggestions(house_coord) ==
    \E pick \in [Modes -> KdQuery(Nodes, house_coord)] :
    \E a \in {Analysis(GRAPH_CACHE, reads, disk, SOCIAL_GDF, house_coord, pick)} :
        /\ \A m \in Modes : a.reads[m].graph <= MaxReads
        /\ GRAPH_CACHE' = a.cache
        /\ reads' = a.reads
        /\ run' = RunAnalysisAndSuggestions(a.result, RESIDENTIAL_GDF, LOW_DENSITY_GDF)
        /\ UNCHANGED <<disk, last, prev, th, refdata, acc, final, sugg, clu, pcall>>

DoTestAccessibilityAndPlacement(house_coord) ==
    \E pick \in [Modes -> KdQuery(Nodes, house_coord)] :
    \E a \in {Analysis(GRAPH_CACHE, reads, disk, SOCIAL_GDF, house_coord, pick)} :
        /\ \A m \in Modes : a.reads[m].graph <= MaxReads
        /\ GRAPH_CACHE' = a.cache
        /\ reads' = a.reads
        /\ run' = TestAccessibilityAndPlacement(a.result, RESIDENTIAL_GDF, LOW_DENSITY_GDF)
        /\ UNCHANGED <<disk, last, prev, th, refdata, acc, final, sugg, clu, pcall>>

CallRunAnalysisAndSuggestions ==
    \E house_coord \in Coords : DoRunAnalysisAndSuggestions(house_coord)

CallTestAccessibilityAndPlacement ==
    \E house_coord \in Coords : DoTestAccessibilityAndPlacement(house_coord)

RunNext ==
    \/ CallRunAnalysisAndSuggestions
    \/ CallTestAccessibilityAndPlacement

RunSpec == FlowInit /\ [][RunNext]_vars

-----------------------------------------------------------------------------
(* The claims *)

Built == last.op = "build_isochrone"

\* the recommendations at hand that a suggest_* function returned
Returned ==
    {x \in {sugg, acc.kindergarten.suggestions, acc.school.suggestions,
            acc.hospital.suggestions} : x.outcome = "ok"}

\* C1, as stated: after any sequence of calls, one after the other, the graph
\* file and the edge file of a mode have been read at most once.
C1_ReadAtMostOnce ==
    \A m \in Modes : reads[m].graph <= 1 /\ reads[m].edges <= 1

\* C1, amended: a call leaves every entry of the cache and the read counts of
\* its mode as they are and, when its mode is cached, returns that entry
\* without reading; an entry appears only by a call for its mode that read
\* each file once.
C1_CachedEntryServesLaterCalls ==
    [][ /\ \A m \in DOMAIN GRAPH_CACHE :
              /\ m \in DOMAIN GRAPH_CACHE'
              /\ GRAPH_CACHE'[m] = GRAPH_CACHE[m]
              /\ reads'[m] = reads[m]
        /\ \A m \in DOMAIN GRAPH_CACHE' \ DOMAIN GRAPH_CACHE :
              /\ last'.mode = m /\ ~last'.hit
              /\ reads'[m] = [graph |-> reads[m].graph + 1, edges |-> reads[m].edges + 1]
        /\ last'.mode \in DOMAIN GRAPH_CACHE =>
              last'.hit /\ last'.handle_id = GRAPH_CACHE[last'.mode].id
      ]_vars

\* a later call for walk was served from the cache, the files read once
C1_Witness ==
    /\ Built /\ last.mode = "walk" /\ last.hit /\ last.outcome = "ok"
    /\ reads["walk"] = [graph |-> 1, edges |-> 1]

\* C2: when callers interleave their first request for a mode, the data of
\* a mode whose files are sound are read once and all callers get the same
\* handle.
C2_GuardedPopulation ==
    \A m \in Modes :
        /\ disk[m].status = "ok" => reads[m].graph <= 1
        /\ \A t1 \in Threads, t2 \in Threads :
              (th[t1].pc = "done" /\ th[t2].pc = "done" /\ th[t1].mode = m /\ th[t2].mode = m)
                  => th[t1].got.id = th[t2].got.id

\* C3: whatever the operation (build_isochrone for any mode, the analysis of a
\* house, a recommendation), an entry the cache holds is still there and the
\* same after it; and a build_isochrone call for one mode neither adds,
\* changes nor removes the entry of another mode.
C3_EntriesAreNeverChangedOrEvicted ==
    [][ /\ \A m \in DOMAIN GRAPH_CACHE :
              m \in DOMAIN GRAPH_CACHE' /\ GRAPH_CACHE'[m] = GRAPH_CACHE[m]
        /\ last' # last =>
              \A m \in Modes \ {last'.mode} :
                  m \in DOMAIN GRAPH_CACHE' <=> m \in DOMAIN GRAPH_CACHE
      ]_vars

\* both modes are cached, each read once; since then a house was analysed,
\* recommendations were made from its zones, and an isochrone was served from
\* the cache
C3_Witness ==
    /\ DOMAIN GRAPH_CACHE = Modes
    /\ \A m \in Modes : reads[m] = [graph |-> 1, edges |-> 1]
    /\ acc.outcome = "ok" /\ final.outcome = "ok"
    /\ \E x \in Returned : x.recommended_sites # <<>>
    /\ Built /\ last.hit /\ last.outcome = "ok"

\* C4: a call for a mode whose files cannot be read raises the load error,
\* returns nothing, stores no entry for the mode and leaves the cache as it
\* was.
C4_FailedLoadCachesNothing ==
    [][ (last'.mode \in Modes /\ disk[last'.mode].status # "ok") =>
            /\ last'.outcome = "DataLoadError"
            /\ last'.feature = NoFeature
            /\ last'.mode \notin DOMAIN GRAPH_CACHE'
            /\ GRAPH_CACHE' = GRAPH_CACHE
      ]_vars

\* the load of walk failed on the edge file while drive is cached
C4_Witness ==
    /\ Built /\ last.mode = "walk" /\ last.outcome = "DataLoadError"
    /\ reads["walk"].edges > 0
    /\ "drive" \in DOMAIN GRAPH_CACHE /\ "walk" \notin DOMAIN GRAPH_CACHE

ValueErrors == {"ValueError: mode", "ValueError: drive meters", "ValueError: limit_type"}

BadCombination(mode, limit_type) ==
    \/ mode \notin {"walk", "drive"}
    \/ limit_type \notin {"meters", "minutes"}
    \/ mode = "drive" /\ limit_type = "meters"

\* C5, as stated: drive with meters, an unknown limit_type and an unknown
\* mode are rejected with an invalid-parameter error and return nothing;
\* every other combination passes validation.
C5_RejectedWithInvalidParameter ==
    Built =>
        IF BadCombination(last.mode, last.limit_type)
        THEN last.outcome \in ValueErrors /\ last.feature = NoFeature
        ELSE last.outcome \notin ValueErrors

\* C5, amended: such a call never searches and returns nothing; it raises
\* the invalid-parameter error unless the files of its mode cannot be read,
\* and then the load error, which comes first; every other combination
\* passes validation.
C5_RejectedAfterLoad ==
    Built =>
        IF BadCombination(last.mode, last.limit_type)
        THEN /\ ~last.searched /\ last.feature = NoFeature
             /\ IF last.mode \in Modes /\ disk[last.mode].status # "ok"
                THEN last.outcome = "DataLoadError"
                ELSE last.outcome \in ValueErrors
        ELSE last.outcome \notin ValueErrors

\* drive with meters was rejected, the drive graph being loaded
C5_Witness ==
    /\ Built /\ last.mode = "drive" /\ last.limit_type = "meters"
    /\ last.outcome = "ValueError: drive meters"
    /\ "drive" \in DOMAIN GRAPH_CACHE

\* the budget the claim gives, in ticks: (limit / 1.3) * 1.2 and limit * 60 * 2
ClaimedBudget(limit, limit_type) ==
    IF limit_type = "meters"
    THEN (limit * 12 * TicksPerSecond) \div 13
    ELSE limit * 120 * TicksPerSecond

\* ticks of a value given in hundredths of a second
HundredthsToTicks(h) == h * (TicksPerSecond \div 100)

\* C6, as stated: the budget is (limit / 1.3) * 1.2 s for meters and
\* limit * 60 * 2 s for minutes, and that value is both the cutoff of the
\* search and the time budget reported in the properties.
C6_BudgetIsCutoffAndReported ==
    (Built /\ last.outcome = "ok") =>
        /\ last.time_limit = ClaimedBudget(last.limit, last.limit_type)
        /\ HundredthsToTicks(last.feature.properties.time_limit_sec)
               = ClaimedBudget(last.limit, last.limit_type)

\* the least cost of a path from source to each node, by rounds of
\* relaxation; -1 stands for no path
RECURSIVE LeastCosts(_, _, _, _)
LeastCosts(G, source, D, rounds) ==
    IF rounds = 0 THEN D
    ELSE LET via(n) == {D[e[1]] + e[3] : e \in {f \in G : f[2] = n /\ D[f[1]] # -1}}
             cands(n) == via(n) \cup (IF D[n] # -1 THEN {D[n]} ELSE {})
             D2 == [n \in Nodes |->
                      IF cands(n) = {} THEN -1
                      ELSE CHOOSE c \in cands(n) : \A x \in cands(n) : c <= x]
         IN  LeastCosts(G, source, D2, rounds - 1)

\* the nodes whose least-cost path from source weighs at most budget
WithinBudget(G, source, budget) ==
    LET D == LeastCosts(G, source, [n \in Nodes |-> IF n = source THEN 0 ELSE -1],
                        Cardinality(Nodes))
    IN  {n \in Nodes : D[n] # -1 /\ D[n] <= budget}

LastGraph == GRAPH_CACHE[last.mode].graph

\* C6, amended: the budget is that value and is the cutoff of the search;
\* the properties report it rounded to two decimals (15 minutes: 1800 s;
\* 500 m: 461.54 s).
C6_BudgetIsCutoffReportedRounded ==
    (Built /\ last.searched) =>
        /\ last.time_limit = ClaimedBudget(last.limit, last.limit_type)
        /\ ClaimedBudget(last.limit, last.limit_type) >= 0 =>
              last.reachable_nodes
                 = WithinBudget(LastGraph, last.source_node,
                                ClaimedBudget(last.limit, last.limit_type))
        /\ last.outcome = "ok" =>
              LET reported == HundredthsToTicks(last.feature.properties.time_limit_sec)
                  diff == reported - ClaimedBudget(last.limit, last.limit_type)
              IN  /\ 2 * diff <= TicksPerSecond \div 100
                  /\ -2 * diff <= TicksPerSecond \div 100
                  /\ (last.limit = 15 /\ last.limit_type = "minutes") =>
                         last.feature.properties.time_limit_sec = 180000
                  /\ (last.limit = 500 /\ last.limit_type = "meters") =>
                         last.feature.properties.time_limit_sec = 46154

\* a walk of 500 m succeeded and reports 461.54 s
C6_Witness ==
    /\ Built /\ last.outcome = "ok"
    /\ last.limit = 500 /\ last.limit_type = "meters"
    /\ last.feature.properties.time_limit_sec = 46154
    /\ last.time_limit = 600000

\* C7, as stated: the reachable set is the set of nodes whose least-cost
\* path from the snapped node weighs at most the budget.
C7_ReachableIsWithinBudget ==
    (Built /\ last.searched) =>
        last.reachable_nodes = WithinBudget(LastGraph, last.source_node, last.time_limit)

\* C7, amended: so it is when the budget is not negative; under a negative
\* budget the reachable set is the snapped node alone.
C7_ReachableIsWithinBudgetOrSource ==
    (Built /\ last.searched) =>
        last.reachable_nodes =
            IF last.time_limit >= 0
            THEN WithinBudget(LastGraph, last.source_node, last.time_limit)
            ELSE {last.source_node}

\* node 3 was reached through node 2 at exactly the budget of 1800 s, the
\* direct edge being over it
C7_Witness ==
    /\ Built /\ last.searched /\ last.mode = "walk" /\ last.source_node = 1
    /\ last.time_limit = 1800 * TicksPerSecond
    /\ <<1, 3, 2000 * TicksPerSecond>> \in LastGraph
    /\ last.reachable_nodes = {1, 2, 3}

\* C8: of two searches on the same graph from the same node, the one with
\* the smaller budget reaches a subset of the nodes of the other, and
\* selects a subset of its edges.
C8_Monotone ==
    (/\ prev.searched /\ last.searched
     /\ prev.mode = last.mode /\ prev.handle_id = last.handle_id
     /\ prev.source_node = last.source_node
     /\ prev.time_limit <= last.time_limit) =>
        /\ prev.reachable_nodes \subseteq last.reachable_nodes
        /\ prev.iso_edges \subseteq last.iso_edges

\* the second search had the larger budget and reached more
C8_Witness ==
    /\ prev.searched /\ last.searched
    /\ prev.mode = last.mode /\ prev.source_node = last.source_node
    /\ prev.time_limit < last.time_limit
    /\ Cardinality(prev.reachable_nodes) = 2
    /\ Cardinality(last.reachable_nodes) = 3
    /\ prev.iso_edges # last.iso_edges

\* no edge leaves the snapped node for another node within the budget: the
\* node is isolated, or the budget too small to reach any node
NothingWithinReach ==
    /\ Built /\ last.searched
    /\ \A e \in LastGraph :
          (e[1] = last.source_node /\ e[2] # last.source_node) => e[3] > last.time_limit

\* C9, as stated: then build_isochrone fails with NoReachableNodes.
C9_FailsWithNoReachableNodes ==
    NothingWithinReach => last.outcome = "RuntimeError: no nodes"

\* C9, amended: then the reachable set is the snapped node alone, not empty,
\* and build_isochrone fails with NoReachableEdges unless a row of the edge
\* file joins that node to itself; NoReachableNodes is never raised.
C9_FailsWithNoReachableEdges ==
    /\ last.outcome # "RuntimeError: no nodes"
    /\ NothingWithinReach =>
          /\ last.reachable_nodes = {last.source_node}
          /\ last.outcome =
                IF <<last.source_node, last.source_node>> \in GRAPH_CACHE[last.mode].edges
                THEN "ok" ELSE "RuntimeError: no edges"

\* the snapped node has no edge at all and the call failed for want of edges
C9_Witness ==
    /\ NothingWithinReach
    /\ last.time_limit > 0
    /\ \A e \in LastGraph : e[1] # last.source_node /\ e[2] # last.source_node
    /\ LastGraph # {}
    /\ last.outcome = "RuntimeError: no edges"

\* C10: when nodes are reachable and no row of the edge file has both
\* endpoints among them, build_isochrone fails with NoReachableEdges and
\* returns nothing.
C10_FailsWithNoReachableEdges ==
    (/\ Built /\ last.searched /\ last.reachable_nodes # {}
     /\ ~\E r \in GRAPH_CACHE[last.mode].edges :
            r[1] \in last.reachable_nodes /\ r[2] \in last.reachable_nodes) =>
        last.outcome = "RuntimeError: no edges" /\ last.feature = NoFeature

\* the snapped node is a component of its own in a graph that has edges
C10_Witness ==
    /\ Built /\ last.searched /\ last.reachable_nodes = {last.source_node}
    /\ GRAPH_CACHE[last.mode].edges # {}
    /\ \A r \in GRAPH_CACHE[last.mode].edges :
          r[1] # last.source_node /\ r[2] # last.source_node
    /\ last.outcome = "RuntimeError: no edges"

\* C11: the rows that form the isochrone are rows of the mode's edge file; a
\* row with both endpoints reachable is among them and a row with a single
\* reachable endpoint, or none, is not.
C11_BothEndpointsReachable ==
    (Built /\ last.searched) =>
        /\ last.iso_edges \subseteq GRAPH_CACHE[last.mode].edges
        /\ \A r \in GRAPH_CACHE[last.mode].edges :
              r \in last.iso_edges <=>
                  (r[1] \in last.reachable_nodes /\ r[2] \in last.reachable_nodes)
        /\ last.outcome = "ok" => last.feature.geometry.lines = last.iso_edges

\* a call that selected a row and dropped another that starts at a reachable
\* node and ends outside the reachable set
C11_Witness ==
    /\ Built /\ last.outcome = "ok"
    /\ \E r \in GRAPH_CACHE[last.mode].edges :
          /\ r[1] \in last.reachable_nodes /\ r[2] \notin last.reachable_nodes
          /\ r \notin last.iso_edges
    /\ last.iso_edges # {}

BuiltFor(iso, mode, limit, limit_type) ==
    /\ iso.properties.mode = mode
    /\ iso.properties.limit = limit
    /\ iso.properties.limit_type = limit_type

\* a facility point of the amenity lies inside the polygon
FacilityInside(amenity, iso) ==
    \E f \in SOCIAL_GDF :
        f.amenity = amenity /\ iso # NoFeature /\ Contains(iso, PointAt(f.x))

\* C13: in the dict of an analysis, the kindergarten isochrone is the 500 m
\* walk one and kindergarten.ok says whether a kindergarten lies inside it;
\* the school isochrones are the 500 m walk one and the 15 min drive one and
\* school.ok says whether a school lies inside either.
C13_VerdictIffFacilityInside ==
    acc.outcome = "ok" =>
        /\ BuiltFor(acc.kindergarten.iso, "walk", 500, "meters")
        /\ acc.kindergarten.ok <=> FacilityInside("kindergarten", acc.kindergarten.iso)
        /\ BuiltFor(acc.school.iso_walk, "walk", 500, "meters")
        /\ BuiltFor(acc.school.iso_drive, "drive", 15, "minutes")
        /\ acc.school.ok <=> \/ FacilityInside("school", acc.school.iso_walk)
                             \/ FacilityInside("school", acc.school.iso_drive)

\* a school is reached by car only, a kindergarten on foot
C13_Witness ==
    /\ acc.outcome = "ok"
    /\ acc.kindergarten.ok
    /\ acc.school.ok /\ ~FacilityInside("school", acc.school.iso_walk)

\* C14, as stated: the dict of an analysis has a verdict for the college
\* category next to kindergarten, school and hospital.
C14_CollegeVerdictReported ==
    acc.outcome = "ok" =>
        {"kindergarten", "school", "college", "hospital"} \subseteq DOMAIN acc

\* C14, amended: the dict of an analysis has a verdict for kindergarten, for
\* school and for hospital, and for no other category; colleges are not
\* evaluated.
C14_ThreeCategoriesOnly ==
    acc.outcome = "ok" =>
        DOMAIN acc \ {"outcome"} = {"kindergarten", "school", "hospital"}

\* an analysis ended where a college lies inside the 500 m walk isochrone
C14_Witness ==
    /\ acc.outcome = "ok"
    /\ FacilityInside("college", acc.school.iso_walk)

\* C15, as stated: hospital.ok holds whenever a point with amenity hospital
\* or clinic lies inside the isochrone of the category.
C15_HospitalsAndClinicsCount ==
    (/\ acc.outcome = "ok"
     /\ FacilityInside("hospital", acc.hospital.iso)
            \/ FacilityInside("clinic", acc.hospital.iso)) =>
        acc.hospital.ok

\* C15, amended: the isochrone of the category is the 2000 m walk one, and
\* hospital.ok says whether a point with amenity clinic lies inside it;
\* points with amenity hospital do not count.
C15_OnlyClinicsCount ==
    acc.outcome = "ok" =>
        /\ BuiltFor(acc.hospital.iso, "walk", 2000, "meters")
        /\ acc.hospital.ok <=> FacilityInside("clinic", acc.hospital.iso)

\* a hospital lies inside the isochrone, no clinic does, and the verdict is
\* negative
C15_Witness ==
    /\ acc.outcome = "ok"
    /\ FacilityInside("hospital", acc.hospital.iso)
    /\ ~acc.hospital.ok

\* C16, as stated: when the walk files are sound and the analysis met a load
\* error (so at the drive isochrone of the school check, after the
\* kindergarten isochrone was built), the caller still gets the kindergarten
\* verdict and its isochrone.
C16_FailuresAreIsolated ==
    (acc.outcome = "DataLoadError" /\ disk["walk"].status = "ok") =>
        acc.kindergarten.iso # NoFeature

Clustered == clu.op = "find_residential_clusters"

\* C17, as stated: no point is a member of the groups of two emitted
\* centroids.
C17_ClustersAreExclusive ==
    Clustered =>
        \A i \in DOMAIN clu.clusters, j \in DOMAIN clu.clusters :
            i # j => clu.clusters[i].indices \cap clu.clusters[j].indices = {}

\* the points a group claimed before group i was formed
ClaimedBefore(i) == UNION {clu.clusters[j].indices : j \in 1..(i - 1)}

\* C18, as stated: every emitted centroid is the mean of its group, the group
\* has at least min_cluster_size points, and it is the seed with the points
\* within the radius of the seed that no earlier group had claimed; the list
\* returned holds these centroids and no other.
C18_GroupsOfUnclaimedPoints ==
    Clustered =>
        /\ Len(clu.centroids) = Len(clu.clusters)
        /\ \A i \in DOMAIN clu.clusters :
              LET g == clu.clusters[i]
              IN  /\ Cardinality(g.indices) >= clu.min_cluster_size
                  /\ clu.centroids[i] = FromUtm(Mean(ClusterCoords(clu.gdf), g.indices))
                  /\ g.seed \in g.indices
                  /\ g.indices =
                        {j \in 1..Len(clu.gdf) :
                            /\ j \notin ClaimedBefore(i)
                            /\ (clu.gdf[j] - clu.gdf[g.seed]) * MetresPerUnit <= clu.radius_meters
                            /\ (clu.gdf[g.seed] - clu.gdf[j]) * MetresPerUnit <= clu.radius_meters}

FallbackTags ==
    {"fallback: full isochrone zone", "fallback: full drive isochrone zone",
     "fallback: full 2km walk isochrone zone"}

\* no site: one fallback tag and nothing else; sites: no fallback tag
FallbackTagged(x) ==
    /\ x.recommended_sites = <<>> =>
          Len(x.criteria_used) = 1 /\ x.criteria_used[1] \in FallbackTags
    /\ x.recommended_sites # <<>> =>
          \A k \in DOMAIN x.criteria_used : x.criteria_used[k] \notin FallbackTags

\* C20: a recommendation without sites carries as fallback_zone the isochrone
\* the search ran on (for school the drive one) and exactly one fallback tag;
\* a recommendation with sites carries no fallback tag.
C20_FallbackIsTheSearchedZone ==
    /\ \A x \in Returned : FallbackTagged(x)
    /\ (acc.kindergarten.suggestions.outcome = "ok"
            /\ acc.kindergarten.suggestions.recommended_sites = <<>>) =>
          acc.kindergarten.suggestions.fallback_zone = acc.kindergarten.iso
    /\ (acc.school.suggestions.outcome = "ok"
            /\ acc.school.suggestions.recommended_sites = <<>>) =>
          acc.school.suggestions.fallback_zone = acc.school.iso_drive
    /\ (acc.hospital.suggestions.outcome = "ok"
            /\ acc.hospital.suggestions.recommended_sites = <<>>) =>
          acc.hospital.suggestions.fallback_zone = acc.hospital.iso

\* a school recommendation fell back on the drive isochrone, which is not
\* the walk one
C20_Witness ==
    /\ acc.school.suggestions.outcome = "ok"
    /\ acc.school.suggestions.recommended_sites = <<>>
    /\ acc.school.suggestions.fallback_zone = acc.school.iso_drive
    /\ acc.school.iso_drive # acc.school.iso_walk
    /\ acc.school.suggestions.criteria_used = <<"fallback: full drive isochrone zone">>

\* the tags a zone centre can carry
ZoneTags ==
    {ZoneCriterion(i, where) :
        i \in 1..Len(LOW_DENSITY_GDF),
        where \in {"walk isochrone", "2km walk isochrone"}}

ClusterTags ==
    {"clustered residential buildings within 500m walk isochrone",
     "clustered residential buildings within drive isochrone",
     "clustered residential buildings within 2km walk isochrone"}

\* the residential clusters inside a zone
ClustersIn(iso) ==
    FindResidentialClusters(ResidentialIn(RESIDENTIAL_GDF, iso), RadiusMeters, MinClusterSize)

\* x recommends the centre of a low-density zone
ZoneRecommended(x) ==
    x.outcome = "ok" /\ x.recommended_sites # <<>> /\ x.criteria_used[1] \in ZoneTags

\* C21, as stated: the centre of a low-density zone is recommended only when
\* the residential clustering of the category yielded no candidate (for
\* school the clusters inside the drive isochrone, for hospital those inside
\* its walk isochrone).
C21_ClustersBeforeZones ==
    /\ ZoneRecommended(acc.school.suggestions) => ClustersIn(acc.school.iso_drive) = <<>>
    /\ ZoneRecommended(acc.hospital.suggestions) => ClustersIn(acc.hospital.iso) = <<>>

\* C21, amended: for school and hospital the zone centres are tried first and
\* the residential clusters after them, and the chain stops at the first
\* stage with a candidate: when the centre of a zone lies inside the walk
\* isochrone of the category, the centre of the first such zone of the file
\* is the only site; clusters (the first three inside the drive isochrone
\* for school, the first two inside the walk isochrone for hospital) are
\* recommended only when no zone centre lies inside; the kindergarten chain
\* has the clusters inside its walk isochrone as its only stage.
C21_ZonesBeforeClusters ==
    /\ acc.school.suggestions.outcome = "ok" =>
          IF ZonesIn(LOW_DENSITY_GDF, acc.school.iso_walk) # {}
          THEN /\ acc.school.suggestions.recommended_sites =
                      <<Centroid(LOW_DENSITY_GDF[FirstOf(ZonesIn(LOW_DENSITY_GDF, acc.school.iso_walk))])>>
               /\ ZoneRecommended(acc.school.suggestions)
          ELSE acc.school.suggestions.recommended_sites =
                  Take(ClustersIn(acc.school.iso_drive), 3)
    /\ acc.hospital.suggestions.outcome = "ok" =>
          IF ZonesIn(LOW_DENSITY_GDF, acc.hospital.iso) # {}
          THEN /\ acc.hospital.suggestions.recommended_sites =
                      <<Centroid(LOW_DENSITY_GDF[FirstOf(ZonesIn(LOW_DENSITY_GDF, acc.hospital.iso))])>>
               /\ ZoneRecommended(acc.hospital.suggestions)
          ELSE acc.hospital.suggestions.recommended_sites =
                  Take(ClustersIn(acc.hospital.iso), 2)
    /\ acc.kindergarten.suggestions.outcome = "ok" =>
          acc.kindergarten.suggestions.recommended_sites = ClustersIn(acc.kindergarten.iso)

\* a zone centre was recommended for the hospital although residential
\* clusters lie inside the same isochrone
C21_Witness ==
    /\ ZoneRecommended(acc.hospital.suggestions)
    /\ ClustersIn(acc.hospital.iso) # <<>>

\* a node of a major road lies inside the polygon
RoadNodeInside(iso) ==
    \E i \in DOMAIN NODES_GDF : Contains(iso, PointAt(NODES_GDF[i]))

\* neither stage of the school chain has a candidate
SchoolStagesEmpty ==
    /\ acc.school.suggestions.outcome = "ok"
    /\ ZonesIn(LOW_DENSITY_GDF, acc.school.iso_walk) = {}
    /\ ClustersIn(acc.school.iso_drive) = <<>>

\* C22, as stated (school): when clustering and zone centres yield nothing
\* and a major-road node lies inside the drive isochrone, the recommendation
\* holds such a node and does not fall back on the isochrone.
C22_RoadNodeRecommended ==
    (SchoolStagesEmpty /\ RoadNodeInside(acc.school.iso_drive)) =>
        /\ \E k \in DOMAIN acc.school.suggestions.recommended_sites :
              \E i \in DOMAIN NODES_GDF :
                  acc.school.suggestions.recommended_sites[k] = PointAt(NODES_GDF[i])
        /\ acc.school.suggestions.fallback_zone = NoFeature

\* C22, amended: when zone centres and clustering yield nothing, the school
\* recommendation is the fallback on the drive isochrone and the hospital
\* one the fallback on its walk isochrone, whether or not a major-road node
\* lies inside; no site of any recommendation is tagged as a road node.
C22_FallbackDespiteRoadNode ==
    /\ SchoolStagesEmpty =>
          acc.school.suggestions =
              [outcome |-> "ok", recommended_sites |-> <<>>,
               fallback_zone |-> acc.school.iso_drive,
               criteria_used |-> <<"fallback: full drive isochrone zone">>]
    /\ (/\ acc.hospital.suggestions.outcome = "ok"
        /\ ZonesIn(LOW_DENSITY_GDF, acc.hospital.iso) = {}
        /\ ClustersIn(acc.hospital.iso) = <<>>) =>
          acc.hospital.suggestions =
              [outcome |-> "ok", recommended_sites |-> <<>>,
               fallback_zone |-> acc.hospital.iso,
               criteria_used |-> <<"fallback: full 2km walk isochrone zone">>]
    /\ \A x \in Returned : \A k \in DOMAIN x.criteria_used :
          x.criteria_used[k] \in ZoneTags \cup ClusterTags \cup FallbackTags

\* the school recommendation fell back although a major-road node lies
\* inside the drive isochrone
C22_Witness ==
    /\ SchoolStagesEmpty
    /\ RoadNodeInside(acc.school.iso_drive)
    /\ acc.school.suggestions.recommended_sites = <<>>

\* C23, as stated: a recommendation with sites has one entry of criteria_used
\* for each site.
C23_OneTagPerSite ==
    \A x \in Returned :
        x.recommended_sites # <<>> => Len(x.criteria_used) = Len(x.recommended_sites)

\* C23, amended: criteria_used has exactly one entry, the tag of the one
\* stage that produced all the sites of the recommendation (or the fallback
\* tag when there is none), however many sites there are.
C23_OneTagPerRecommendation ==
    \A x \in Returned :
        /\ Len(x.criteria_used) = 1
        /\ x.recommended_sites # <<>> => x.criteria_used[1] \in ZoneTags \cup ClusterTags
        /\ x.criteria_used[1] \in ZoneTags => Len(x.recommended_sites) = 1

\* two cluster centroids under one tag
C23_Witness ==
    \E x \in Returned :
        /\ Len(x.recommended_sites) = 2
        /\ Len(x.criteria_used) = 1 /\ x.criteria_used[1] \in ClusterTags

\* C24, as stated: a run of either driver on an origin whose analysis
\* succeeds completes, and returns a recommendation for the categories with
\* a negative verdict and no other, each with sites or with a fallback zone.
C24_RunCompletes ==
    (run.op # "none" /\ run.accessibility.outcome = "ok") =>
        /\ run.outcome = "ok"
        /\ DOMAIN run.recommendations = Failing(run.accessibility)
        /\ \A c \in DOMAIN run.recommendations :
              /\ run.recommendations[c].outcome = "ok"
              /\ \/ run.recommendations[c].recommended_sites # <<>>
                 \/ run.recommendations[c].fallback_zone # NoFeature

\* C25: in the dict generate_placement_suggestions returned, a category with
\* a positive verdict has the empty suggestions it came with, and a category
\* with a negative verdict has the recommendation made from its own
\* isochrones.
C25_SuggestionsIffNotOk ==
    final.outcome = "ok" =>
        /\ final.kindergarten.suggestions =
              IF final.kindergarten.ok THEN NoSuggestion
              ELSE SuggestKindergarten(final.kindergarten.iso, RESIDENTIAL_GDF)
        /\ final.school.suggestions =
              IF final.school.ok THEN NoSuggestion
              ELSE SuggestSchool(final.school.iso_walk, final.school.iso_drive,
                                 RESIDENTIAL_GDF, LOW_DENSITY_GDF)
        /\ final.hospital.suggestions =
              IF final.hospital.ok THEN NoSuggestion
              ELSE SuggestHospital(final.hospital.iso, RESIDENTIAL_GDF, LOW_DENSITY_GDF)
        /\ \A c \in ObjectTypes : ~final[c].ok <=> final[c].suggestions.outcome = "ok"

\* a dict returned with a category left empty and a category filled
C25_Witness ==
    /\ final.outcome = "ok"
    /\ \E c \in ObjectTypes : final[c].ok /\ final[c].suggestions = NoSuggestion
    /\ \E c \in ObjectTypes : ~final[c].ok /\ final[c].suggestions.outcome = "ok"

\* a call of placement_suggestions was made
Placed == pcall # NoPlacementCall

C27_SourceAlwaysReachable ==
    /\ (Built /\ last.searched) =>
          /\ last.source_node \in last.reachable_nodes
          /\ SearchOutcome(last.reachable_nodes, last.iso_edges) # "RuntimeError: no nodes"
    /\ (Built /\ last.outcome = "ok") =>
          /\ last.feature.properties.reachable_nodes >= 1
          /\ last.feature.properties.reachable_nodes = Cardinality(last.reachable_nodes)
    /\ Built => last.outcome # "RuntimeError: no nodes"

\* a search with a negative budget reached the snapped node and no other
C27_Witness ==
    /\ Built /\ last.searched /\ last.time_limit < 0
    /\ last.reachable_nodes = {last.source_node}
    /\ \E e \in LastGraph : e[1] = last.source_node /\ e[2] # last.source_node

\* C28, as stated: after generate_placement_suggestions the dict passed in
\* still has empty suggestions for every category.
C28_ArgumentNotModified ==
    acc.outcome = "ok" => \A c \in ObjectTypes : acc[c].suggestions = NoSuggestion

\* limit_type is unknown, or drive goes with meters
RejectedArguments(mode, limit_type) ==
    \/ limit_type \notin {"meters", "minutes"}
    \/ mode = "drive" /\ limit_type = "meters"

\* C29, as stated: a call rejected for drive with meters or an unknown
\* limit_type leaves the cache and the read counts as they were, and a call
\* with such arguments never ends with a load error.
C29_RejectedBeforeLoad ==
    [][ (last'.mode \in Modes /\ RejectedArguments(last'.mode, last'.limit_type)) =>
            /\ GRAPH_CACHE' = GRAPH_CACHE
            /\ reads' = reads
            /\ last'.outcome # "DataLoadError"
      ]_vars

\* C29, amended: the graph is asked for first.  A call with such arguments
\* for a cached mode is rejected and leaves the cache as it was; for a mode
\* not cached whose files are sound it reads both files, stores the entry and
\* is then rejected; for a mode not cached whose files cannot be read it ends
\* with the load error and stores nothing.  A call with an unknown mode is
\* rejected and leaves the cache and the read counts as they were.
C29_RejectedAfterGraphIsLoaded ==
    [][ /\ (last'.mode \in Modes /\ RejectedArguments(last'.mode, last'.limit_type)) =>
            IF last'.mode \in DOMAIN GRAPH_CACHE
            THEN /\ GRAPH_CACHE' = GRAPH_CACHE /\ reads' = reads
                 /\ last'.outcome = Validate(last'.mode, last'.limit_type)
            ELSE IF disk[last'.mode].status = "ok"
            THEN /\ DOMAIN GRAPH_CACHE' = DOMAIN GRAPH_CACHE \cup {last'.mode}
                 /\ \A m \in DOMAIN GRAPH_CACHE : GRAPH_CACHE'[m] = GRAPH_CACHE[m]
                 /\ reads'[last'.mode] = [graph |-> reads[last'.mode].graph + 1,
                                          edges |-> reads[last'.mode].edges + 1]
                 /\ last'.outcome = Validate(last'.mode, last'.limit_type)
            ELSE /\ GRAPH_CACHE' = GRAPH_CACHE
                 /\ reads'[last'.mode].graph = reads[last'.mode].graph + 1
                 /\ last'.outcome = "DataLoadError"
        /\ last'.mode \notin Modes =>
            /\ GRAPH_CACHE' = GRAPH_CACHE /\ reads' = reads
            /\ last'.outcome = "ValueError: mode"
      ]_vars

\* a walk call with an unknown limit_type was rejected after it had read the
\* walk files and stored the entry
C29_Witness ==
    /\ Built /\ last.mode = "walk" /\ last.limit_type = "hours"
    /\ last.outcome = "ValueError: limit_type"
    /\ ~last.hit
    /\ "walk" \in DOMAIN GRAPH_CACHE
    /\ reads["walk"].graph = 1

\* the points of the frame within the radius of point j, itself included
WithinRadius(j) ==
    {k \in 1..Len(clu.gdf) :
        /\ (clu.gdf[k] - clu.gdf[j]) * MetresPerUnit <= clu.radius_meters
        /\ (clu.gdf[j] - clu.gdf[k]) * MetresPerUnit <= clu.radius_meters}

\* the points that are members of some emitted group
Members == UNION {clu.clusters[i].indices : i \in DOMAIN clu.clusters}

\* C30: after find_residential_clusters every point with at least
\* min_cluster_size points within the radius, itself and claimed points
\* included, is a member of some emitted group; with min_cluster_size at
\* most 1 every point is a member.
C30_DensePointsAreMembers ==
    Clustered =>
        /\ \A j \in 1..Len(clu.gdf) :
              Cardinality(WithinRadius(j)) >= clu.min_cluster_size => j \in Members
        /\ clu.min_cluster_size <= 1 => Members = 1..Len(clu.gdf)

\* a dense point is the seed of a group that it could form only with points
\* an earlier group had claimed, and a dense point that is no seed is a member
C30_Witness ==
    /\ Clustered
    /\ \E i \in DOMAIN clu.clusters :
          /\ Cardinality(WithinRadius(clu.clusters[i].seed)) >= clu.min_cluster_size
          /\ Cardinality(clu.clusters[i].indices \ ClaimedBefore(i)) < clu.min_cluster_size
    /\ \E j \in Members :
          /\ \A i \in DOMAIN clu.clusters : clu.clusters[i].seed # j
          /\ Cardinality(WithinRadius(j)) >= clu.min_cluster_size

====
